---- MODULE Spec2Model ----
(***************************************************************************)
(* Model of the test fixture of git-bv (tests.py): the temporary workspace *)
(* created by TestBase.setUp and removed by TestBase.tearDown, the         *)
(* cooperative fixture chain of Test(TestBase, CreateRepositories), and    *)
(* the way unittest drives setUp, the test body and tearDown.              *)
(*                                                                         *)
(* The filesystem is the set of directories of the temporary folder plus   *)
(* the directory the process started in.  A directory has an identity      *)
(* (its inode) besides its path: the process's working directory is a      *)
(* reference to a directory, not a path, so it keeps designating a         *)
(* directory after rmtree removed it and after its name is used again.     *)
(***************************************************************************)
EXTENDS Integers, Sequences, FiniteSets, TLC

\* ------------------------------------------------------------------ bounds
MaxTmpNames == 3
MaxRuns == 2

\* ------------------------------------------------------- paths and entries
\* The directory the process is started in (path and inode number).
Orig == 0
\* Value of self.cwd before setUp assigned it.
NoPath == -1
\* Names mkdtemp(prefix='git-bv_test') can give to a directory.
TmpNames == 1..MaxTmpNames
\* What a test body may create below its working directory: a directory
\* and a file in that directory.
Entries == {"d", "d/g"}
Parent(e) == IF e = "d/g" THEN "d" ELSE ""

Range(s) == {s[i] : i \in 1..Len(s)}
Min(S) == CHOOSE x \in S : \A y \in S : x <= y

\* ------------------------------------------------------------- class graph
Classes == {"Test", "TestBase", "CreateRepositories", "TestCase", "object"}

Bases(c) ==
    IF c = "Test" THEN <<"TestBase", "CreateRepositories">>
    ELSE IF c = "TestBase" THEN <<"TestCase">>
    ELSE IF c = "CreateRepositories" THEN <<"object">>
    ELSE IF c = "TestCase" THEN <<"object">>
    ELSE <<>>

Defines_TestOverrides(c, m) ==
    c \in {"Test", "TestBase", "CreateRepositories", "TestCase"}

\* The classes whose body has a def of method m (setUp or tearDown).
Defines(c, m) ==
    c \in {"TestBase", "CreateRepositories", "TestCase"}

CallsSuper_TestCaseForwards(c, m) ==
    c \in {"TestBase", "CreateRepositories", "TestCase"}

\* The methods that forward with super(C, self).m(); unittest.TestCase's
\* hooks are empty and forward nothing.
CallsSuper(c, m) ==
    c \in {"TestBase", "CreateRepositories"}

InTail(x, s) == s # <<>> /\ x \in Range(Tail(s))

\* The merge step of the C3 linearisation: take the first head that is in
\* the tail of no list, remove it from every list, go on.
RECURSIVE Merge(_)
Merge(seqs) ==
    LET ne == SelectSeq(seqs, LAMBDA s : s # <<>>)
    IN  IF ne = <<>> THEN <<>>
        ELSE LET cands == {i \in 1..Len(ne) :
                              \A j \in 1..Len(ne) : ~InTail(Head(ne[i]), ne[j])}
             IN  IF cands = {} THEN <<>>
                 ELSE LET h == Head(ne[Min(cands)])
                      IN  <<h>> \o Merge([k \in 1..Len(ne) |->
                                  IF Head(ne[k]) = h THEN Tail(ne[k]) ELSE ne[k]])

\* The method resolution order of class c.
RECURSIVE Linearize(_)
Linearize(c) ==
    <<c>> \o Merge([i \in 1..Len(Bases(c)) |-> Linearize(Bases(c)[i])]
                   \o <<Bases(c)>>)

\* The class super() resolves method m to when looking after position k of
\* the order mro, as a position of mro; 0 when no class further on defines
\* it (AttributeError).
SuperResolve(mro, k, m) ==
    LET idxs == {i \in (k+1)..Len(mro) : Defines(mro[i], m)}
    IN  IF idxs = {} THEN 0 ELSE Min(idxs)

\* The frames entered by self.m() on an instance of cls, in call order, and
\* whether the innermost super() call raised AttributeError.
RECURSIVE ChainFrom(_, _, _)
ChainFrom(mro, k, m) ==
    LET i == SuperResolve(mro, k, m)
    IN  IF i = 0 THEN [calls |-> <<>>, raised |-> TRUE]
        ELSE IF CallsSuper(mro[i], m)
             THEN LET r == ChainFrom(mro, i, m)
                  IN  [calls |-> <<mro[i]>> \o r.calls, raised |-> r.raised]
             ELSE [calls |-> <<mro[i]>>, raised |-> FALSE]

\* __mro__ of every class.
MRO == [c \in Classes |-> Linearize(c)]

Chain(cls, m) == ChainFrom(MRO[cls], 0, m)

\* -------------------------------------------------------------- filesystem
\* Inodes are numbered in creation order; those above MaxTmpNames are the
\* directories created after the start, all of them by mkdtemp in a setUp.
Made(next) == (MaxTmpNames + 1)..(next - 1)

\* fs maps the path of each existing directory to its inode number (id) and
\* to the entries below it.
Ids(f) == {f[p].id : p \in DOMAIN f}
PathOf(f, id) == CHOOSE p \in DOMAIN f : f[p].id = id

SetToSeq(S) ==
    CHOOSE s \in [1..Cardinality(S) -> S] : {s[i] : i \in 1..Cardinality(S)} = S

\* os.getcwd() succeeds: the working directory still exists.
CwdExists(f, id) == id \in Ids(f)
\* os.listdir(os.getcwd()): the names directly below the working directory.
ListDir(f, id) == SetToSeq({e \in f[PathOf(f, id)].content : Parent(e) = ""})

Mkdtemp_ExistOk(f, n, id) ==
    IF n = NoPath THEN [raised |-> TRUE, fs |-> f, path |-> NoPath]
    ELSE IF n \in DOMAIN f THEN [raised |-> FALSE, fs |-> f, path |-> n]
    ELSE [raised |-> FALSE,
          fs |-> [p \in DOMAIN f \cup {n} |->
                     IF p = n THEN [id |-> id, content |-> {}] ELSE f[p]],
          path |-> n]

\* tempfile.mkdtemp: n is the name its last attempt tried, NoPath when the
\* temporary folder is unusable (OSError).  A name that exists makes mkdir
\* fail (FileExistsError once the attempts are used up); otherwise the
\* directory is created empty, with a new inode, and its path returned.
Mkdtemp(f, n, id) ==
    IF n = NoPath \/ n \in DOMAIN f
    THEN [raised |-> TRUE, fs |-> f, path |-> NoPath]
    ELSE [raised |-> FALSE,
          fs |-> [p \in DOMAIN f \cup {n} |->
                     IF p = n THEN [id |-> id, content |-> {}] ELSE f[p]],
          path |-> n]

Chdir_Stay(f, old, p) == old

\* os.chdir(p): the working directory becomes the directory p names.
Chdir(f, old, p) == f[p].id

Rmtree_OnlyIfEmpty(f, p) ==
    IF f[p].content = {} THEN [q \in DOMAIN f \ {p} |-> f[q]] ELSE f

\* shutil.rmtree(p): the directory and everything below it are removed.
Rmtree(f, p) == [q \in DOMAIN f \ {p} |-> f[q]]

\* ----------------------------------------------------------------- fixture
\* A fixture state st is [fs, cwd, selfcwd, nextId]; the operators return
\* it with the field raised added: the call that raised, "none" when the
\* method returned.
WithRaised(st, r) ==
    [fs |-> st.fs, cwd |-> st.cwd, selfcwd |-> st.selfcwd,
     nextId |-> st.nextId, raised |-> r]

\* Body of TestBase.setUp after its super() call returned.
TestBaseSetUp(st, e) ==
    LET mk == Mkdtemp(st.fs, e.name, st.nextId)
    IN  IF mk.raised THEN WithRaised(st, "mkdtemp")
        ELSE LET st1 == [fs |-> mk.fs, cwd |-> st.cwd, selfcwd |-> mk.path,
                         nextId |-> st.nextId + 1]
             IN  IF ~e.chdirOk THEN WithRaised(st1, "chdir")
                 ELSE WithRaised([st1 EXCEPT !.cwd = Chdir(mk.fs, st.cwd, mk.path)],
                                 "none")

TestBaseTearDown_ChdirBack(st) ==
    IF st.selfcwd \notin DOMAIN st.fs THEN WithRaised(st, "rmtree")
    ELSE WithRaised([st EXCEPT !.fs = Rmtree(st.fs, st.selfcwd), !.cwd = Orig],
                    "none")

\* Body of TestBase.tearDown after its super() call returned: rmtree raises
\* when self.cwd is not set or names no directory.
TestBaseTearDown(st) ==
    IF st.selfcwd \notin DOMAIN st.fs THEN WithRaised(st, "rmtree")
    ELSE WithRaised([st EXCEPT !.fs = Rmtree(st.fs, st.selfcwd)], "none")

\* self.setUp() on an instance of cls.  Every frame forwards before doing
\* anything of its own, so an AttributeError of the innermost super() call
\* leaves the state untouched; TestBase's is the only body with an effect.
SetUpResult(cls, st, e) ==
    LET ch == Chain(cls, "setUp")
    IN  IF ch.raised THEN WithRaised(st, "super")
        ELSE IF "TestBase" \in Range(ch.calls) THEN TestBaseSetUp(st, e)
        ELSE WithRaised(st, "none")

\* self.tearDown() on an instance of cls.
TearDownResult(cls, st) ==
    LET ch == Chain(cls, "tearDown")
    IN  IF ch.raised THEN WithRaised(st, "super")
        ELSE IF "TestBase" \in Range(ch.calls) THEN TestBaseTearDown(st)
        ELSE WithRaised(st, "none")

\* ------------------------------------------------------------------- tests
\* The test methods of Test, and test_derived: the body of a test case that
\* derives from the fixture and works in its directory.
Tests == {"test_current_directory", "test_01", "test_02", "test_derived"}

BodyOutcomes_PlaceholderRaises(t, f, id) ==
    IF t \in {"test_01", "test_02"} THEN {"ok", "error"}
    ELSE IF t = "test_current_directory"
         THEN IF ~CwdExists(f, id) THEN {"error"}
              ELSE IF ListDir(f, id) = <<>> THEN {"ok"} ELSE {"failure"}
    ELSE {"ok", "failure", "error"}

\* How the body of test t can end with the filesystem f and the working
\* directory id.
BodyOutcomes(t, f, id) ==
    IF t \in {"test_01", "test_02"} THEN {"ok"}
    ELSE IF t = "test_current_directory"
         THEN IF ~CwdExists(f, id) THEN {"error"}
              ELSE IF ListDir(f, id) = <<>> THEN {"ok"} ELSE {"failure"}
    ELSE {"ok", "failure", "error"}

\* ------------------------------------------------------------------- state
VARIABLES
    fs,          \* the directories: path -> [id, content]
    cwd,         \* inode of the process's working directory
    selfcwd,     \* self.cwd of the running test instance
    nextId,      \* inode number of the next directory created
    pc,          \* "ready": between two tests; "body"; "bodyDone"
    test,        \* the test method being run
    runs,        \* number of tests started
    bodyOutcome, \* how the body of the running test ended
    last,        \* report of the last finished test
    trace        \* frames entered by the last setUp and the last tearDown

vars == <<fs, cwd, selfcwd, nextId, pc, test, runs, bodyOutcome, last, trace>>

Fixture == [fs |-> fs, cwd |-> cwd, selfcwd |-> selfcwd, nextId |-> nextId]

\* The report of a finished test: its outcome, the stage and the call that
\* raised, and the workspace it was given (inode, and what was in it when
\* the body ended).
NoReport == [test |-> "none", outcome |-> "none", stage |-> "none",
             raised |-> "none", dir |-> NoPath, left |-> {}]

Envs == [name : TmpNames \cup {NoPath}, chdirOk : BOOLEAN]

\* Directories other programs left in the temporary folder.
PreContents == {{}, {"d"}}

Init ==
    /\ \E pre \in SUBSET TmpNames : \E c \in PreContents :
          fs = [p \in {Orig} \cup pre |->
                   [id |-> p, content |-> IF p = Orig THEN {} ELSE c]]
    /\ cwd = Orig
    /\ selfcwd = NoPath
    /\ nextId = MaxTmpNames + 1
    /\ pc = "ready"
    /\ test = "none"
    /\ runs = 0
    /\ bodyOutcome = "none"
    /\ last = NoReport
    /\ trace = [setUp |-> <<>>, tearDown |-> <<>>]

\* unittest runs test t of class Test on a new instance: self.setUp(); when
\* it raises, the test is reported as an error and neither the body nor
\* tearDown is run.
SetUp(t, e) ==
    /\ pc = "ready"
    /\ runs < MaxRuns
    /\ LET r == SetUpResult("Test", [Fixture EXCEPT !.selfcwd = NoPath], e)
       IN  /\ fs' = r.fs
           /\ cwd' = r.cwd
           /\ selfcwd' = r.selfcwd
           /\ nextId' = r.nextId
           /\ pc' = IF r.raised # "none" THEN "ready" ELSE "body"
           /\ last' = IF r.raised # "none"
                      THEN [test |-> t, outcome |-> "error", stage |-> "setUp",
                            raised |-> r.raised, dir |-> NoPath, left |-> {}]
                      ELSE last
    /\ test' = t
    /\ runs' = runs + 1
    /\ bodyOutcome' = "none"
    /\ trace' = [trace EXCEPT !.setUp = Chain("Test", "setUp").calls]

\* The body of a derived test creates entry x in its workspace, by a path
\* relative to the working directory.
BodyWrite(x) ==
    /\ pc = "body"
    /\ test = "test_derived"
    /\ selfcwd \in DOMAIN fs
    /\ cwd = fs[selfcwd].id
    /\ LET p == selfcwd
       IN  /\ x \notin fs[p].content
           /\ Parent(x) = "" \/ Parent(x) \in fs[p].content
           /\ fs' = [fs EXCEPT ![p].content = @ \cup {x}]
    /\ UNCHANGED <<cwd, selfcwd, nextId, pc, test, runs, bodyOutcome, last,
                   trace>>

\* The body of a derived test changes to another existing directory.
BodyChdir(p) ==
    /\ pc = "body"
    /\ test = "test_derived"
    /\ p \in DOMAIN fs
    /\ fs[p].id # cwd
    /\ cwd' = fs[p].id
    /\ UNCHANGED <<fs, selfcwd, nextId, pc, test, runs, bodyOutcome, last,
                   trace>>

\* The test method returns or raises.
BodyEnd ==
    /\ pc = "body"
    /\ \E o \in BodyOutcomes(test, fs, cwd) : bodyOutcome' = o
    /\ pc' = "bodyDone"
    /\ UNCHANGED <<fs, cwd, selfcwd, nextId, test, runs, last, trace>>

\* unittest calls self.tearDown() whenever setUp succeeded, however the
\* body ended; an exception of tearDown makes the test an error.
TearDown ==
    /\ pc = "bodyDone"
    /\ LET r == TearDownResult("Test", Fixture)
       IN  /\ fs' = r.fs
           /\ cwd' = r.cwd
           /\ last' = [test |-> test,
                       outcome |-> IF bodyOutcome # "ok" THEN bodyOutcome
                                   ELSE IF r.raised # "none" THEN "error"
                                   ELSE "ok",
                       stage |-> IF bodyOutcome # "ok" THEN "body"
                                 ELSE IF r.raised # "none" THEN "tearDown"
                                 ELSE "none",
                       raised |-> IF bodyOutcome # "ok" THEN "body"
                                  ELSE r.raised,
                       dir |-> IF selfcwd \in DOMAIN fs
                               THEN fs[selfcwd].id ELSE NoPath,
                       left |-> IF selfcwd \in DOMAIN fs
                                THEN fs[selfcwd].content ELSE {}]
    /\ pc' = "ready"
    /\ trace' = [trace EXCEPT !.tearDown = Chain("Test", "tearDown").calls]
    /\ UNCHANGED <<selfcwd, nextId, test, runs, bodyOutcome>>

Next ==
    \/ \E t \in Tests : \E e \in Envs : SetUp(t, e)
    \/ \E x \in Entries : BodyWrite(x)
    \/ \E p \in {Orig} \cup TmpNames : BodyChdir(p)
    \/ BodyEnd
    \/ TearDown

Spec == Init /\ [][Next]_vars

\* ---------------------------------------------------------------- helpers
\* The fixture directories that exist: created by a setUp, not removed yet.
LiveFixtures == Made(nextId) \cap Ids(fs)
\* The last finished test went through its body and tearDown.
TornDown == last.test # "none" /\ last.stage # "setUp"
Placeholders == {"test_01", "test_02"}
\* The state setUp starts from: a new instance has no self.cwd.
NewInstance == [Fixture EXCEPT !.selfcwd = NoPath]

\* ------------------------------------------------------------------ claims
\* C1: whenever setUp returns, the working directory exists and its listing
\* is the empty sequence, whatever is in the temporary folder and whatever
\* earlier tests did; the body of test_current_directory never fails.
C1_EmptyAfterSetUp ==
    [][ /\ (pc = "ready" /\ pc' = "body")
            => (CwdExists(fs', cwd') /\ ListDir(fs', cwd') = <<>>)
        /\ (pc = "body" /\ pc' = "bodyDone" /\ test = "test_current_directory")
            => bodyOutcome' = "ok" ]_vars

\* test_current_directory passed after a derived test worked in its own
\* workspace, with a non-empty directory of another program in the folder.
C1_Witness ==
    /\ pc = "bodyDone" /\ test = "test_current_directory" /\ bodyOutcome = "ok"
    /\ last.test = "test_derived" /\ last.left # {}
    /\ \E p \in DOMAIN fs : p # selfcwd /\ fs[p].content # {}

C3_ReleaseGuaranteed == pc = "ready" => LiveFixtures = {}

\* C4: mkdtemp returns a path that named no directory before the call, and
\* creating it leaves every directory that existed, fixture directories of
\* other runs included, under its own path.
C4_UniquelyNamed ==
    [][ nextId' # nextId
        => /\ selfcwd' \notin DOMAIN fs
           /\ selfcwd' \in DOMAIN fs'
           /\ fs'[selfcwd'].id \notin Ids(fs)
           /\ \A p \in DOMAIN fs : p \in DOMAIN fs' /\ fs'[p] = fs[p] ]_vars

\* A workspace exists next to a fixture directory of an earlier run and a
\* directory of another program.
C4_Witness ==
    /\ pc = "body"
    /\ \E p \in DOMAIN fs : p # selfcwd /\ fs[p].id \in Made(nextId)
    /\ \E p \in DOMAIN fs : p # Orig /\ fs[p].id \notin Made(nextId)

\* C5: a successful setUp leaves the process in the directory it created
\* and recorded in self.cwd: a new directory, neither the previous working
\* directory nor the directory of an earlier test.
C5_CwdIsOwnDirectory ==
    [][ (pc = "ready" /\ pc' = "body")
        => /\ selfcwd' \in DOMAIN fs'
           /\ cwd' = fs'[selfcwd'].id
           /\ cwd' # cwd
           /\ cwd' \notin Ids(fs)
           /\ cwd' \notin Made(nextId) ]_vars

\* A later test is in its own workspace while the process came from the
\* removed workspace of an earlier test.
C5_Witness ==
    /\ pc = "body" /\ runs >= 2 /\ TornDown
    /\ cwd = fs[selfcwd].id /\ cwd # last.dir

\* C6: a fixture directory exists only between its own setUp and its own
\* tearDown: at most one exists, it is the workspace of the running test,
\* and none exists between two tests.
C6_ScopedToOneTest ==
    /\ Cardinality(LiveFixtures) <= 1
    /\ pc = "ready" => LiveFixtures = {}
    /\ pc # "ready" => LiveFixtures = {fs[selfcwd].id}

\* C7 as stated: every run of test_01 and test_02 is reported as a success.
C7_PlaceholdersAlwaysSucceed ==
    last.test \in Placeholders => last.outcome = "ok"

\* C7 as amended: the bodies of test_01 and test_02 never fail, so a run of
\* either is a success or an error raised by a system call of the fixture,
\* never a failure.
C7_PlaceholderBodiesPass ==
    /\ (pc = "bodyDone" /\ test \in Placeholders) => bodyOutcome = "ok"
    /\ last.test \in Placeholders
        => \/ last.outcome = "ok" /\ last.stage = "none"
           \/ /\ last.outcome = "error"
              /\ \/ last.stage = "setUp" /\ last.raised \in {"mkdtemp", "chdir"}
                 \/ last.stage = "tearDown" /\ last.raised = "rmtree"

\* test_01 went through setUp, body and tearDown and was reported a success
\* after the setUp of an earlier test raised in mkdtemp.
C7_Witness ==
    /\ last.test = "test_01" /\ last.outcome = "ok" /\ TornDown
    /\ runs >= 2 /\ nextId = MaxTmpNames + 2

\* C8: from every state a test can start or end in, setUp and tearDown of
\* Test(TestBase, CreateRepositories) give the filesystem, working
\* directory, self.cwd and exception that those of TestBase alone give, for
\* every answer of the system.
C8_ChainIsNoOp ==
    /\ pc = "ready"
        => \A e \in Envs : SetUpResult("Test", NewInstance, e)
                           = SetUpResult("TestBase", NewInstance, e)
    /\ pc = "bodyDone"
        => TearDownResult("Test", Fixture) = TearDownResult("TestBase", Fixture)

\* The fixture of Test created a workspace, which the body filled and left.
C8_Witness ==
    /\ pc = "bodyDone" /\ fs[selfcwd].content # {} /\ cwd # fs[selfcwd].id
    /\ runs >= 2

\* C9: Test resolves its methods in the order Test, TestBase, TestCase,
\* CreateRepositories, object; setUp and tearDown enter TestBase then
\* TestCase and nothing else, and the super() call of CreateRepositories,
\* which finds no class after it, is never reached.
C9_CreateRepositoriesNeverRuns ==
    /\ MRO["Test"] = <<"Test", "TestBase", "TestCase", "CreateRepositories",
                       "object">>
    /\ SuperResolve(MRO["Test"], 4, "setUp") = 0
    /\ SuperResolve(MRO["Test"], 4, "tearDown") = 0
    /\ runs >= 1 => trace.setUp = <<"TestBase", "TestCase">>
    /\ TornDown => trace.tearDown = <<"TestBase", "TestCase">>

\* Both chains ran.
C9_Witness ==
    /\ TornDown /\ trace.setUp # <<>> /\ trace.tearDown # <<>>

\* C10: tearDown leaves the working directory as it is, so when the body
\* stayed in the workspace the process ends up in a removed directory; and
\* neither setUp nor tearDown ever returns to the starting directory.
C10_TearDownKeepsCwd ==
    [][ /\ (pc = "bodyDone" /\ pc' = "ready")
            => /\ cwd' = cwd
               /\ cwd = fs[selfcwd].id => ~CwdExists(fs', cwd')
        /\ (pc \in {"ready", "bodyDone"} /\ cwd # Orig) => cwd' # Orig ]_vars

\* After a tearDown the process is in a directory that no longer exists.
C10_Witness ==
    /\ pc = "ready" /\ TornDown /\ cwd = last.dir /\ ~CwdExists(fs, cwd)

====
